---- MODULE Spec2Model ----
(***************************************************************************)
(* The adaptive reading assistant: the agents of agents.py, the difficulty *)
(* model of model_utils.py, the Streamlit session of app.py and the batch  *)
(* entry point of main.py.                                                 *)
(*                                                                         *)
(* Numbers.  error_rate, focus_score and the difficulty index are floats   *)
(* of the program; the model holds them as integers in thousandths         *)
(* (1.0 is 1000), computed with exact decimal arithmetic.  wpm is an       *)
(* integer as in the program.  NaN is a distinguished value, and every     *)
(* comparison goes through Lt/Gt, which are false on NaN as in IEEE 754.   *)
(***************************************************************************)
EXTENDS Integers, Sequences, FiniteSets, TLC

VARIABLES
    entry,              \* which script the host runs: "app" (app.py) or "main" (main.py)
    pc,                 \* position of the running script
    initialized,        \* 'listen_agent' in st.session_state
    current_difficulty, \* st.session_state.current_difficulty
    history,            \* st.session_state.history
    level,              \* app.py local: level
    target_text,        \* app.py local: target_text
    assistance,         \* app.py local: assistance
    audio_input,        \* app.py local: audio_input (TRUE when a recording exists)
    camera_input,       \* app.py local: camera_input (TRUE when a snapshot exists)
    error_rate,         \* local of the round
    wpm,                \* local of the round
    focus_score,        \* local of the round
    next_diff,          \* local of the round
    feedback,           \* local of the round: the mentor's message
    listen_target,      \* the target_text argument of the last listen_from_file call
    completed,          \* number of script runs with the button pressed that reached the end
    artifact,           \* the file at MODEL_PATH: "absent", "partial" or "complete"
    call,               \* the last direct call of an agent method and its outcome
    lpc,                \* load_model: position of each concurrent caller
    trained,            \* load_model: how many times train_initial_model fitted a model
    written,            \* load_model: how many times the artifact was written
    loaded              \* load_model: what each caller that read the artifact found

vars == << entry, pc, initialized, current_difficulty, history, level, target_text,
           assistance, audio_input, camera_input, error_rate, wpm, focus_score,
           next_diff, feedback, listen_target, completed, artifact, call, lpc, trained,
           written, loaded >>

sessionVars == << entry, pc, initialized, current_difficulty, history, level,
                  target_text, assistance, audio_input, camera_input, error_rate,
                  wpm, focus_score, next_diff, feedback, listen_target, completed >>

loadVars == << lpc, trained, written, loaded >>

----------------------------------------------------------------------------
(* Bounds of the model. *)

\* Rounds ('Analyze Session' clicks) per session.
MaxRounds == 2

\* Concurrent first callers of load_model.
MaxCallers == 3

----------------------------------------------------------------------------
(* Numbers *)

\* One unit: 1.0 in thousandths.
One == 1000

\* float('nan'): outside every range the model uses.
NaN == -999999

IsNaN(x) == x = NaN

\* a < b and a > b on floats: false when either side is NaN.
Lt(a, b) == ~IsNaN(a) /\ ~IsNaN(b) /\ a < b

Gt(a, b) == ~IsNaN(a) /\ ~IsNaN(b) /\ a > b

\* Python's min(a, b) and max(a, b): the first argument unless the second is
\* strictly smaller (larger), so a NaN second argument is dropped.
PyMin(a, b) == IF Lt(b, a) THEN b ELSE a

PyMax(a, b) == IF Gt(b, a) THEN b ELSE a

Abs(x) == IF x < 0 THEN 0 - x ELSE x

\* int(x): truncation toward zero of num/den, den > 0.
TruncDiv(num, den) == IF num >= 0 THEN num \div den ELSE 0 - ((0 - num) \div den)

\* Floor of the square root of n >= 0.
ISqrt(n) == CHOOSE r \in 0..(n + 1) : r * r <= n /\ n < (r + 1) * (r + 1)

----------------------------------------------------------------------------
(* model_utils.py: the difficulty model *)

\* The seed data of train_initial_model: [error_rate, wpm, focus_score] -> y.
SeedData ==
    << [x |-> << 0, 150, 900 >>, y |-> 900],
       [x |-> << 100, 100, 700 >>, y |-> 600],
       [x |-> << 300, 50, 400 >>, y |-> 300],
       [x |-> << 500, 30, 200 >>, y |-> 100] >>

\* LinearRegression().fit(X, y) on the seed data.  Four points, three features
\* and an intercept, the design matrix non-singular: the least-squares fit is the
\* one affine function through the four points,
\*     1.2 - 2 * error_rate + 0.01 * wpm - 2 * focus_score.
Intercept == 1200

CoefError == -2

CoefWpm == 10

CoefFocus == -2

\* model.predict([[error_rate, wpm, focus_score]])[0] for finite inputs, in
\* thousandths.
ModelPredict(e, w, f) == Intercept + CoefError * e + CoefWpm * w + CoefFocus * f

\* The fit reproduces the seed targets (what makes the coefficients above the
\* least-squares solution).
SeedReproduced ==
    \A i \in 1..Len(SeedData) :
        ModelPredict(SeedData[i].x[1], SeedData[i].x[2], SeedData[i].x[3]) = SeedData[i].y

\* LinearRegression.predict validates its input and raises ValueError on NaN.
PredictRaises(e, w, f) == IsNaN(e) \/ IsNaN(w) \/ IsNaN(f)

predict_difficulty_unclipped(e, w, f) ==
    IF PredictRaises(e, w, f)
    THEN [raised |-> TRUE, predict_called |-> TRUE, value |-> NaN]
    ELSE [raised |-> FALSE, predict_called |-> TRUE, value |-> ModelPredict(e, w, f)]

\* predict_difficulty(model, error_rate, wpm, focus_score): no check of the
\* inputs; model.predict is called with them as they are; the prediction is
\* clipped to [0.0, 1.0].
predict_difficulty(e, w, f) ==
    IF PredictRaises(e, w, f)
    THEN [raised |-> TRUE, predict_called |-> TRUE, value |-> NaN]
    ELSE [raised |-> FALSE, predict_called |-> TRUE,
          value |-> PyMax(0, PyMin(One, ModelPredict(e, w, f)))]

\* AdaptAgent.adapt
adapt(e, w, f) == predict_difficulty(e, w, f)

----------------------------------------------------------------------------
(* agents.py: ListenAgent *)

\* What the transcriber (sr.AudioFile + recognize_google) can do with a recording.
ListenOutcomes == {"ok", "unknown_value", "request_error", "exception"}

listen_from_file_swapped(outcome, ratio, words) ==
    CASE outcome = "unknown_value" -> << One \div 2, 0 >>
      [] outcome = "request_error" -> << One, 0 >>
      [] outcome = "exception" -> << One, 0 >>
      [] OTHER -> << One - ratio, words * 12 >>

\* ListenAgent.listen_from_file.  `ratio` is SequenceMatcher(...).ratio() of the
\* target and the transcription, `words` is len(transcribed_text.split()); both
\* are read only when the transcription succeeds.  Returns (error_rate, wpm).
listen_from_file(outcome, ratio, words) ==
    CASE outcome = "unknown_value" -> << One, 0 >>
      [] outcome = "request_error" -> << One \div 2, 0 >>
      [] outcome = "exception" -> << One, 0 >>
      [] OTHER -> << One - ratio, words * 12 >>

----------------------------------------------------------------------------
(* agents.py: ObserveAgent *)

\* What the face detector (FaceMesh.process) can do with a frame.
ObserveOutcomes == {"face", "no_face", "exception"}

\* ObserveAgent.analyze_image.  (x, y) is the nose tip, landmark 4, in
\* thousandths of the frame; the deviation is the distance from the centre
\* (0.5, 0.5), here rounded down to a thousandth.  Returns focus_score.
analyze_image(outcome, x, y) ==
    LET dist_x == Abs(x - One \div 2)
        dist_y == Abs(y - One \div 2)
        deviation == ISqrt(dist_x * dist_x + dist_y * dist_y)
    IN  IF outcome = "no_face" THEN 0
        ELSE IF outcome = "exception" THEN 0
        ELSE PyMax(0, One - deviation * 2)

----------------------------------------------------------------------------
(* agents.py: AssistAgent *)

provide_assistance_nonstrict(difficulty_index) ==
    IF ~IsNaN(difficulty_index) /\ difficulty_index >= 700
    THEN [visual_cues |-> << "syllable_segmentation", "font_spacing_wide" >>,
          tts_enabled |-> TRUE, highlight_color |-> "yellow"]
    ELSE IF ~IsNaN(difficulty_index) /\ difficulty_index >= 400
    THEN [visual_cues |-> << "font_spacing_medium" >>,
          tts_enabled |-> FALSE, highlight_color |-> "light_blue"]
    ELSE [visual_cues |-> << >>, tts_enabled |-> FALSE, highlight_color |-> "none"]

\* AssistAgent.provide_assistance
provide_assistance(difficulty_index) ==
    IF Gt(difficulty_index, 700)
    THEN [visual_cues |-> << "syllable_segmentation", "font_spacing_wide" >>,
          tts_enabled |-> TRUE, highlight_color |-> "yellow"]
    ELSE IF Gt(difficulty_index, 400)
    THEN [visual_cues |-> << "font_spacing_medium" >>,
          tts_enabled |-> FALSE, highlight_color |-> "light_blue"]
    ELSE [visual_cues |-> << >>, tts_enabled |-> FALSE, highlight_color |-> "none"]

----------------------------------------------------------------------------
(* agents.py: MentorAgent *)

accuracy_state_inclusive(e) ==
    IF ~IsNaN(e) /\ e <= 200 THEN "high" ELSE IF ~IsNaN(e) /\ e <= 500 THEN "medium" ELSE "low"

\* accuracy_state of provide_feedback
accuracy_state(e) ==
    IF Lt(e, 200) THEN "high" ELSE IF Lt(e, 500) THEN "medium" ELSE "low"

\* focus_state of provide_feedback
focus_state(f) ==
    IF Gt(f, 700) THEN "high" ELSE IF Gt(f, 400) THEN "medium" ELSE "low"

\* The template library of provide_feedback, keyed by (accuracy_state, focus_state).
templates ==
    [k \in {<< "high", "high" >>, << "high", "medium" >>, << "high", "low" >>,
            << "medium", "high" >>, << "medium", "medium" >>, << "medium", "low" >>,
            << "low", "high" >>, << "low", "medium" >>, << "low", "low" >>} |->
        CASE k = << "high", "high" >> ->
               << "Outstanding work! Your reading was accurate and you stayed completely focused.",
                  "You're on fire today! Great pronunciation and steady attention." >>
          [] k = << "high", "medium" >> ->
               << "Good reading! You nailed the words. Try to keep your eyes on the screen a bit more.",
                  "Your accuracy is great. Let's work on staying steady next time." >>
          [] k = << "high", "low" >> ->
               << "You read the words correctly, but you seem a bit distracted. Maybe take a quick stretch?",
                  "Great accuracy, but I noticed you looking away. Let's try to focus for just 2 more minutes." >>
          [] k = << "medium", "high" >> ->
               << "Good focus! There were a few tricky words, but you powered through.",
                  "I like how attentive you are. Let's practice some of those harder sounds together." >>
          [] k = << "medium", "medium" >> ->
               << "Solid effort. You're doing okay, just keep practicing those long words.",
                  "Nice job. Remember to pause at periods to catch your breath." >>
          [] k = << "medium", "low" >> ->
               << "It looks like you're getting tired. The words are getting a bit mixed up. Want a break?",
                  "Let's pause. Focus is key to getting these words right." >>
          [] k = << "low", "high" >> ->
               << "I admire your focus! This text was really hard, wasn't it? Let's try something easier.",
                  "You stayed with it, which is great. Don't worry about the mistakes, we'll fix them." >>
          [] k = << "low", "medium" >> ->
               << "That was a tough one. You stumbled a bit, but that's how we learn.",
                  "Let's slow down. Read one word at a time." >>
          [] OTHER ->
               << "This seems too difficult right now and you look tired. Let's stop and play a game instead.",
                  "I think we need a break. We can try this again later when you're fresh." >>]

DefaultFeedback == "Good effort today!"

\* templates.get((accuracy_state, focus_state), ["Good effort today!"])
feedback_options(e, f) ==
    LET key == << accuracy_state(e), focus_state(f) >>
    IN  IF key \in DOMAIN templates THEN templates[key] ELSE << DefaultFeedback >>

\* int((1 - error_rate) * 100) and int(focus_score * 100): truncation toward zero.
accuracy_percent(e) == TruncDiv((One - e) * 100, One)

focus_percent(f) == TruncDiv(f * 100, One)

\* MentorAgent.provide_feedback.  `pick` is the index random.choice draws, in
\* 1..Len(feedback_options(e, f)).  The message is the chosen template followed by
\* " (Accuracy: {accuracy}%, Focus: {focus}%)"; int() of a NaN raises ValueError.
provide_feedback(e, f, pick) ==
    LET options == feedback_options(e, f)
        chosen == options[pick]
    IN  IF IsNaN(e) \/ IsNaN(f)
        THEN [raised |-> TRUE, template |-> chosen, accuracy |-> 0, focus |-> 0]
        ELSE [raised |-> FALSE, template |-> chosen,
              accuracy |-> accuracy_percent(e), focus |-> focus_percent(f)]

----------------------------------------------------------------------------
(* app.py: the content and its display *)

PassageEasy ==
    <<
       "T", "h", "e", " ", "s", "u", "n", " ", "i", "s", " ", "h", "o", "t", ".", " ",
       "T", "h", "e", " ", "s", "k", "y", " ", "i", "s", " ", "b", "l", "u", "e", ".",
       " ", "I", " ", "l", "i", "k", "e", " ", "t", "o", " ", "p", "l", "a", "y", "." >>

PassageMedium ==
    <<
       "T", "h", "e", " ", "q", "u", "i", "c", "k", " ", "b", "r", "o", "w", "n", " ",
       "f", "o", "x", " ", "j", "u", "m", "p", "s", " ", "o", "v", "e", "r", " ", "t",
       "h", "e", " ", "l", "a", "z", "y", " ", "d", "o", "g", ".", " ", "I", "t", " ",
       "w", "a", "s", " ", "a", " ", "s", "u", "n", "n", "y", " ", "d", "a", "y", " ",
       "i", "n", " ", "t", "h", "e", " ", "p", "a", "r", "k", "." >>

PassageHard ==
    <<
       "P", "h", "o", "t", "o", "s", "y", "n", "t", "h", "e", "s", "i", "s", " ", "i",
       "s", " ", "t", "h", "e", " ", "p", "r", "o", "c", "e", "s", "s", " ", "u", "s",
       "e", "d", " ", "b", "y", " ", "p", "l", "a", "n", "t", "s", " ", "t", "o", " ",
       "c", "o", "n", "v", "e", "r", "t", " ", "l", "i", "g", "h", "t", " ", "e", "n",
       "e", "r", "g", "y", " ", "i", "n", "t", "o", " ", "c", "h", "e", "m", "i", "c",
       "a", "l", " ", "e", "n", "e", "r", "g", "y", "." >>

\* passages of app.py
passages == [l \in {"easy", "medium", "hard"} |->
                CASE l = "easy" -> PassageEasy
                  [] l = "medium" -> PassageMedium
                  [] OTHER -> PassageHard]

\* level of app.py: "medium" unless the difficulty is below 0.3 or above 0.7.
Level(d) == IF Lt(d, 300) THEN "easy" ELSE IF Gt(d, 700) THEN "hard" ELSE "medium"

\* str.replace(ch, ch + "-") on a text held as a sequence of characters:
\* positions lo..hi of s, by halves.
RECURSIVE ReplaceRange(_, _, _, _)
ReplaceRange(s, ch, lo, hi) ==
    IF lo > hi THEN << >>
    ELSE IF lo = hi THEN (IF s[lo] = ch THEN << ch, "-" >> ELSE << s[lo] >>)
    ELSE LET mid == (lo + hi) \div 2
         IN  ReplaceRange(s, ch, lo, mid) \o ReplaceRange(s, ch, mid + 1, hi)

Replace(s, ch) == ReplaceRange(s, ch, 1, Len(s))

\* The chain of replacements of the "syllable_segmentation" cue.
Segmented(t) ==
    Replace(Replace(Replace(Replace(Replace(Replace(t, "e"), "o"), "a"), "i"), "u"), "y")

\* The chain applied to each passage.
SegmentedPassages == [l \in DOMAIN passages |-> Segmented(passages[l])]

Contains(seq, x) == \E i \in 1..Len(seq) : seq[i] = x

\* target_text as app.py leaves it after the display block: the passage of the
\* level, reassigned to its segmented form when the cue is on.
DisplayedText(d) ==
    IF Contains(provide_assistance(d).visual_cues, "syllable_segmentation")
    THEN SegmentedPassages[Level(d)]
    ELSE passages[Level(d)]

----------------------------------------------------------------------------
(* Inputs of the session: what the collaborators and the simulation can yield *)

\* SequenceMatcher ratios of a transcription, in thousandths.
Ratios == {0, 1000}

\* Word counts of a transcription.
WordCounts == {0, 10, 834}

\* np.random.uniform(0.0, 0.2) and np.random.randint(60, 150).
SimErrorRates == {0, 199}

SimWpms == {60, 149}

\* Nose tips the detector reports, in thousandths of the frame.
NoseTips == {<< 600, 500 >>, << 900, 900 >>}

\* np.random.uniform(0.4, 1.0).
SimFocusScores == {400, 999}

\* A name that is not bound: a session_state key before the first run, a local
\* of the script outside a run.  Unbound stands for a number, Unset for a level,
\* NoAssistance and NoFeedback for the two records, << >> for a text.
Unbound == -1

Unset == "unset"

NoAssistance == [visual_cues |-> << >>, tts_enabled |-> FALSE, highlight_color |-> Unset]

NoFeedback == [raised |-> FALSE, template |-> Unset, accuracy |-> Unbound, focus |-> Unbound]

----------------------------------------------------------------------------
(* model_utils.py: load_model, as one call in a single-threaded host *)

\* The artifact after load_model returns: an existing file is read and left as
\* it is, a missing one is trained and written.
AfterLoadModel(a) == IF a = "absent" THEN "complete" ELSE a

----------------------------------------------------------------------------
(* app.py: one run of the script *)

\* Lines 15-90: the first run creates the agents and the session state; every
\* run picks the passage for the current difficulty, applies the assistance to
\* it and reads the widgets.  With the button pressed the run goes on to the
\* processing block; without it the script ends here and its locals are gone.
ScriptRun ==
    /\ entry = "app"
    /\ pc = "idle"
    /\ \E button \in BOOLEAN, audio \in BOOLEAN, camera \in BOOLEAN :
        LET d == IF initialized THEN current_difficulty ELSE One \div 2
        IN  /\ button => (initialized => Len(history) < MaxRounds)
            /\ initialized' = TRUE
            /\ artifact' = IF initialized THEN artifact ELSE AfterLoadModel(artifact)
            /\ current_difficulty' = d
            /\ history' = IF initialized THEN history ELSE << >>
            /\ IF button
               THEN /\ level' = Level(d)
                    /\ assistance' = provide_assistance(d)
                    /\ target_text' = DisplayedText(d)
                    /\ audio_input' = audio
                    /\ camera_input' = camera
                    /\ pc' = "listen"
               ELSE /\ level' = Unset
                    /\ assistance' = NoAssistance
                    /\ target_text' = << >>
                    /\ audio_input' = FALSE
                    /\ camera_input' = FALSE
                    /\ pc' = "idle"
    /\ UNCHANGED << entry, error_rate, wpm, focus_score, next_diff, feedback,
                    listen_target, completed, call, loadVars >>

\* Lines 100-114, LISTEN.
Listen ==
    /\ pc = "listen"
    /\ \/ /\ audio_input
          /\ \E outcome \in ListenOutcomes, ratio \in Ratios, words \in WordCounts :
                LET r == listen_from_file(outcome, ratio, words)
                IN  /\ error_rate' = r[1]
                    /\ wpm' = r[2]
          /\ listen_target' = target_text
       \/ /\ ~audio_input
          /\ error_rate' \in SimErrorRates
          /\ wpm' \in SimWpms
          /\ UNCHANGED listen_target
    /\ pc' = "observe"
    /\ UNCHANGED << entry, initialized, current_difficulty, history, level, target_text,
                    assistance, audio_input, camera_input, focus_score, next_diff, feedback,
                    completed, artifact, call, loadVars >>

\* Lines 117-127, OBSERVE.
Observe ==
    /\ pc = "observe"
    /\ \/ /\ camera_input
          /\ \E outcome \in ObserveOutcomes, nose \in NoseTips :
                focus_score' = analyze_image(outcome, nose[1], nose[2])
       \/ /\ ~camera_input
          /\ focus_score' \in SimFocusScores
    /\ pc' = "adapt"
    /\ UNCHANGED << entry, initialized, current_difficulty, history, level, target_text,
                    assistance, audio_input, camera_input, error_rate, wpm, next_diff, feedback,
                    listen_target, completed, artifact, call, loadVars >>

updated_difficulty_smoothed(current, next) == (current + next) \div 2

\* st.session_state.current_difficulty = next_diff
updated_difficulty(current, next) == next

\* Lines 129-131, ADAPT: the new difficulty replaces the current one.
Adapt ==
    /\ pc = "adapt"
    /\ LET r == adapt(error_rate, wpm, focus_score)
       IN  IF r.raised
           THEN pc' = "aborted" /\ UNCHANGED << next_diff, current_difficulty >>
           ELSE /\ pc' = "mentor"
                /\ next_diff' = r.value
                /\ current_difficulty' = updated_difficulty(current_difficulty, r.value)
    /\ UNCHANGED << entry, initialized, history, level, target_text, assistance,
                    audio_input, camera_input, error_rate, wpm, focus_score, feedback,
                    listen_target, completed, artifact, call, loadVars >>

\* Lines 133-134, MENTOR.
Mentor ==
    /\ pc = "mentor"
    /\ \E pick \in 1..Len(feedback_options(error_rate, focus_score)) :
        LET r == provide_feedback(error_rate, focus_score, pick)
        IN  /\ feedback' = r
            /\ pc' = IF r.raised THEN "aborted" ELSE "append"
    /\ UNCHANGED << entry, initialized, current_difficulty, history, level, target_text,
                    assistance, audio_input, camera_input, error_rate, wpm, focus_score,
                    next_diff, listen_target, completed, artifact, call, loadVars >>

\* st.session_state.history.append({"error": ..., "focus": ..., "diff": ...})
history_append(h, e, f, d) == Append(h, [error |-> e, focus |-> f, diff |-> d])

\* Line 137: the record of the round.
AppendHistory ==
    /\ pc = "append"
    /\ history' = history_append(history, error_rate, focus_score, next_diff)
    /\ pc' = "display"
    /\ UNCHANGED << entry, initialized, current_difficulty, level, target_text,
                    assistance, audio_input, camera_input, error_rate, wpm, focus_score,
                    next_diff, feedback, listen_target, completed, artifact, call, loadVars >>

\* Lines 139-141: the feedback is shown and the run ends; the locals of the
\* script do not outlive it.
Display ==
    /\ pc = "display"
    /\ completed' = completed + 1
    /\ pc' = "idle"
    /\ level' = Unset
    /\ assistance' = NoAssistance
    /\ target_text' = << >>
    /\ audio_input' = FALSE
    /\ camera_input' = FALSE
    /\ error_rate' = Unbound
    /\ wpm' = Unbound
    /\ focus_score' = Unbound
    /\ next_diff' = Unbound
    /\ feedback' = NoFeedback
    /\ listen_target' = << >>
    /\ UNCHANGED << entry, initialized, current_difficulty, history, artifact, call,
                    loadVars >>

----------------------------------------------------------------------------
(* main.py: run_session *)

\* The methods class ListenAgent of agents.py defines.
ListenAgentMethods == {"__init__", "listen_from_file"}

\* Lines 7-12: the five agents are constructed; AdaptAgent() loads or trains
\* the model.
RunSessionInit ==
    /\ entry = "main"
    /\ pc = "main_start"
    /\ artifact' = AfterLoadModel(artifact)
    /\ pc' = "main_listen"
    /\ UNCHANGED << entry, initialized, current_difficulty, history, level, target_text,
                    assistance, audio_input, camera_input, error_rate, wpm, focus_score,
                    next_diff, feedback, listen_target, completed, call, loadVars >>

\* Line 15: error_rate, wpm = listener.listen().  ListenAgent has no method
\* listen, so the call raises AttributeError, nothing catches it, and lines
\* 18-34 of run_session are never reached.
RunSessionListen ==
    /\ entry = "main"
    /\ pc = "main_listen"
    /\ pc' = IF "listen" \in ListenAgentMethods THEN "main_observe" ELSE "aborted"
    /\ UNCHANGED << entry, initialized, current_difficulty, history, level, target_text,
                    assistance, audio_input, camera_input, error_rate, wpm, focus_score,
                    next_diff, feedback, listen_target, completed, artifact, call,
                    loadVars >>

----------------------------------------------------------------------------
(* The session: either script, run by a single-threaded host *)

Init ==
    /\ SeedReproduced
    /\ entry \in {"app", "main"}
    /\ pc = IF entry = "app" THEN "idle" ELSE "main_start"
    /\ initialized = FALSE
    /\ current_difficulty = Unbound
    /\ history = << >>
    /\ level = Unset
    /\ target_text = << >>
    /\ assistance = NoAssistance
    /\ audio_input = FALSE
    /\ camera_input = FALSE
    /\ error_rate = Unbound
    /\ wpm = Unbound
    /\ focus_score = Unbound
    /\ next_diff = Unbound
    /\ feedback = NoFeedback
    /\ listen_target = << >>
    /\ completed = 0
    /\ artifact \in {"absent", "complete"}
    /\ call = [op |-> "none"]
    /\ lpc = << >>
    /\ trained = 0
    /\ written = 0
    /\ loaded = << >>

Next ==
    \/ ScriptRun
    \/ Listen
    \/ Observe
    \/ Adapt
    \/ Mentor
    \/ AppendHistory
    \/ Display
    \/ RunSessionInit
    \/ RunSessionListen

Spec == Init /\ [][Next]_vars

----------------------------------------------------------------------------
(* The agents called directly, on inputs of any kind *)

\* error_rate arguments: in range, on and around the thresholds, out of range, NaN.
FnErrorRates == {NaN, -100, 0, 4, 100, 155, 199, 200, 201, 499, 500, 501, 1000, 1500}

\* wpm arguments.
FnWpms == {NaN, -50, 0, 100, 150, 10000}

\* focus_score arguments.
FnFocusScores == {NaN, -100, 0, 400, 401, 456, 700, 701, 900, 996, 1000, 1500}

\* difficulty_index arguments.
FnDifficulties == {NaN, -200, 0, 200, 399, 400, 401, 500, 699, 700, 701, 800, 1000, 1300}

CallAdapt ==
    /\ \E e \in FnErrorRates, w \in FnWpms, f \in FnFocusScores :
        call' = [op |-> "adapt", error_rate |-> e, wpm |-> w, focus_score |-> f,
                 out |-> adapt(e, w, f)]
    /\ UNCHANGED << sessionVars, artifact, loadVars >>

CallAssist ==
    /\ \E d \in FnDifficulties :
        call' = [op |-> "provide_assistance", difficulty_index |-> d,
                 out |-> provide_assistance(d)]
    /\ UNCHANGED << sessionVars, artifact, loadVars >>

CallFeedback ==
    /\ \E e \in FnErrorRates, f \in FnFocusScores :
        \E pick \in 1..Len(feedback_options(e, f)) :
            call' = [op |-> "provide_feedback", error_rate |-> e, focus_score |-> f,
                     out |-> provide_feedback(e, f, pick)]
    /\ UNCHANGED << sessionVars, artifact, loadVars >>

CallListen ==
    /\ \E outcome \in ListenOutcomes, ratio \in Ratios, words \in WordCounts :
        call' = [op |-> "listen_from_file", outcome |-> outcome, ratio |-> ratio,
                 words |-> words, out |-> listen_from_file(outcome, ratio, words)]
    /\ UNCHANGED << sessionVars, artifact, loadVars >>

CallAnalyze ==
    /\ \E outcome \in ObserveOutcomes, nose \in NoseTips :
        call' = [op |-> "analyze_image", outcome |-> outcome, nose |-> nose,
                 out |-> analyze_image(outcome, nose[1], nose[2])]
    /\ UNCHANGED << sessionVars, artifact, loadVars >>

InitFn ==
    /\ SeedReproduced
    /\ entry = "library"
    /\ pc = "idle"
    /\ initialized = FALSE
    /\ current_difficulty = Unbound
    /\ history = << >>
    /\ level = Unset
    /\ target_text = << >>
    /\ assistance = NoAssistance
    /\ audio_input = FALSE
    /\ camera_input = FALSE
    /\ error_rate = Unbound
    /\ wpm = Unbound
    /\ focus_score = Unbound
    /\ next_diff = Unbound
    /\ feedback = NoFeedback
    /\ listen_target = << >>
    /\ completed = 0
    /\ artifact = "complete"
    /\ call = [op |-> "none"]
    /\ lpc = << >>
    /\ trained = 0
    /\ written = 0
    /\ loaded = << >>

NextFn ==
    \/ CallAdapt
    \/ CallAssist
    \/ CallFeedback
    \/ CallListen
    \/ CallAnalyze

SpecFn == InitFn /\ [][NextFn]_vars

----------------------------------------------------------------------------
(* model_utils.py: load_model called by concurrent sessions *)

Callers == 1..MaxCallers

\* Line 33: os.path.exists(MODEL_PATH).
LoadCheck(p) ==
    /\ lpc[p] = "start"
    /\ lpc' = [lpc EXCEPT ![p] = IF artifact # "absent" THEN "read" ELSE "train"]
    /\ UNCHANGED << sessionVars, artifact, call, trained, written, loaded >>

\* Lines 34-35: the file is opened and unpickled.  A file another caller has
\* opened for writing and not yet closed is truncated: pickle.load raises.
LoadRead(p) ==
    /\ lpc[p] = "read"
    /\ loaded' = [loaded EXCEPT ![p] = artifact]
    /\ lpc' = [lpc EXCEPT ![p] = IF artifact = "complete" THEN "done" ELSE "failed"]
    /\ UNCHANGED << sessionVars, artifact, call, trained, written >>

\* Lines 14-23 of train_initial_model: the model is fitted.
TrainFit(p) ==
    /\ lpc[p] = "train"
    /\ trained' = trained + 1
    /\ lpc' = [lpc EXCEPT ![p] = "open"]
    /\ UNCHANGED << sessionVars, artifact, call, written, loaded >>

\* Line 25: open(MODEL_PATH, 'wb') creates or truncates the file.
TrainOpen(p) ==
    /\ lpc[p] = "open"
    /\ artifact' = "partial"
    /\ lpc' = [lpc EXCEPT ![p] = "dump"]
    /\ UNCHANGED << sessionVars, call, trained, written, loaded >>

\* Line 26 and the end of the with block: the pickle is written and the file
\* closed.
TrainDump(p) ==
    /\ lpc[p] = "dump"
    /\ artifact' = "complete"
    /\ written' = written + 1
    /\ lpc' = [lpc EXCEPT ![p] = "done"]
    /\ UNCHANGED << sessionVars, call, trained, loaded >>

InitLoad ==
    /\ entry = "concurrent"
    /\ pc = "idle"
    /\ initialized = FALSE
    /\ current_difficulty = Unbound
    /\ history = << >>
    /\ level = Unset
    /\ target_text = << >>
    /\ assistance = NoAssistance
    /\ audio_input = FALSE
    /\ camera_input = FALSE
    /\ error_rate = Unbound
    /\ wpm = Unbound
    /\ focus_score = Unbound
    /\ next_diff = Unbound
    /\ feedback = NoFeedback
    /\ listen_target = << >>
    /\ completed = 0
    /\ artifact \in {"absent", "complete"}
    /\ call = [op |-> "none"]
    /\ lpc = [p \in Callers |-> "start"]
    /\ trained = 0
    /\ written = 0
    /\ loaded = [p \in Callers |-> "nothing"]

NextLoad ==
    \E p \in Callers :
        \/ LoadCheck(p)
        \/ LoadRead(p)
        \/ TrainFit(p)
        \/ TrainOpen(p)
        \/ TrainDump(p)

SpecLoad == InitLoad /\ [][NextLoad]_vars

----------------------------------------------------------------------------
(* Properties *)

Last(s) == s[Len(s)]

IsPrefix(s, t) == Len(s) <= Len(t) /\ \A i \in 1..Len(s) : s[i] = t[i]

\* num / den (den > 0, num >= 0) rounded to the nearest integer, a tie going to
\* the even neighbour as Python's round does.
RoundNearest(num, den) ==
    LET q == num \div den
        r == num % den
    IN  IF 2 * r < den THEN q
        ELSE IF 2 * r > den THEN q + 1
        ELSE IF q % 2 = 0 THEN q ELSE q + 1

\* C1: the difficulty adapt returns is in [0.0, 1.0] for every signal, also when
\* the raw prediction is above 1 or below 0; so current_difficulty, 0.5 at the
\* start, and every difficulty recorded in the history are in [0.0, 1.0] in every
\* state of the session.
C1_DifficultyInUnitRange ==
    /\ initialized => current_difficulty \in 0..One
    /\ pc \in {"mentor", "append", "display"} => next_diff \in 0..One
    /\ \A i \in 1..Len(history) : history[i].diff \in 0..One

\* C1 witness: a round whose raw prediction is above 1 has just set the current
\* difficulty to 1.0, after an earlier round was clipped to 0.0 from below.
C1_Witness ==
    /\ pc = "mentor"
    /\ ModelPredict(error_rate, wpm, focus_score) > One
    /\ current_difficulty = One
    /\ Len(history) >= 1
    /\ history[1].diff = 0
    /\ history[1].error = One

\* C2: provide_assistance is total, with strict thresholds and the first match
\* winning: above 0.7 the two cues, TTS and yellow; above 0.4 and up to 0.7 the
\* medium spacing, no TTS and light_blue; up to 0.4 no cue, no TTS and none.
\* Exactly 0.7 gives light_blue and exactly 0.4 gives the empty configuration.
C2_AssistanceThresholds ==
    call.op = "provide_assistance" =>
        LET d == call.difficulty_index
            high == [visual_cues |-> << "syllable_segmentation", "font_spacing_wide" >>,
                     tts_enabled |-> TRUE, highlight_color |-> "yellow"]
            mid == [visual_cues |-> << "font_spacing_medium" >>,
                    tts_enabled |-> FALSE, highlight_color |-> "light_blue"]
            none == [visual_cues |-> << >>, tts_enabled |-> FALSE,
                     highlight_color |-> "none"]
        IN  /\ call.out \in {high, mid, none}
            /\ ~IsNaN(d) =>
                /\ d > 700 => call.out = high
                /\ (d > 400 /\ d <= 700) => call.out = mid
                /\ d <= 400 => call.out = none

\* C2 witness: the call with difficulty exactly 0.7 returned the light_blue
\* configuration.
C2_Witness ==
    /\ call.op = "provide_assistance"
    /\ call.difficulty_index = 700
    /\ call.out.highlight_color = "light_blue"
    /\ call.out.tts_enabled = FALSE

\* C3: whatever random.choice draws, the template of the feedback is one of the
\* bucket keyed by (accuracy_state, focus_state), accuracy_state being high below
\* an error rate of 0.2, medium below 0.5 and low otherwise, focus_state being
\* high above a focus of 0.7, medium above 0.4 and low otherwise; the default
\* message is never the template.
C3_TemplateFromBucket ==
    call.op = "provide_feedback" =>
        LET e == call.error_rate
            f == call.focus_score
            acc == IF Lt(e, 200) THEN "high" ELSE IF Lt(e, 500) THEN "medium" ELSE "low"
            foc == IF Gt(f, 700) THEN "high" ELSE IF Gt(f, 400) THEN "medium" ELSE "low"
        IN  /\ << acc, foc >> \in DOMAIN templates
            /\ \E i \in 1..Len(templates[<< acc, foc >>]) :
                    call.out.template = templates[<< acc, foc >>][i]
            /\ call.out.template # DefaultFeedback

\* C3 witness: error_rate 0.1 and focus_score 0.9 drew the second template of
\* the (high, high) bucket.
C3_Witness ==
    /\ call.op = "provide_feedback"
    /\ call.error_rate = 100
    /\ call.focus_score = 900
    /\ ~call.out.raised
    /\ call.out.template = templates[<< "high", "high" >>][2]

\* C4: for error_rate and focus_score in [0, 1] the suffix of the feedback shows
\* (1 - error_rate) * 100 and focus_score * 100, each rounded to the nearest
\* integer.
C4_PercentagesRounded ==
    (/\ call.op = "provide_feedback"
     /\ call.error_rate \in 0..One
     /\ call.focus_score \in 0..One) =>
        /\ ~call.out.raised
        /\ call.out.accuracy = RoundNearest((One - call.error_rate) * 100, One)
        /\ call.out.focus = RoundNearest(call.focus_score * 100, One)

\* C5: a failing collaborator becomes a fixed signal value: unintelligible audio
\* gives (error_rate, wpm) = (1.0, 0), an unavailable service gives (0.5, 0), and
\* no face, or a detector that raises, gives focus_score 0.0.
C5_FailuresBecomeFixedSignals ==
    /\ call.op = "listen_from_file" =>
        /\ call.outcome = "unknown_value" => call.out = << 1000, 0 >>
        /\ call.outcome = "request_error" => call.out = << 500, 0 >>
    /\ call.op = "analyze_image" =>
        (call.outcome \in {"no_face", "exception"} => call.out = 0)

\* C5 witness: the transcription service was unavailable and the call returned
\* (0.5, 0).
C5_Witness ==
    /\ call.op = "listen_from_file"
    /\ call.outcome = "request_error"
    /\ call.out = << 500, 0 >>

\* C6: a signal with a NaN in it is rejected with an error before the model's
\* predict is called, and adapt returns no difficulty for it.
C6_InvalidRejectedBeforePredict ==
    (/\ call.op = "adapt"
     /\ (IsNaN(call.error_rate) \/ IsNaN(call.wpm) \/ IsNaN(call.focus_score))) =>
        /\ call.out.raised
        /\ ~call.out.predict_called

\* C7: no round that was started aborts, whatever the collaborators do: each
\* goes on from the signal to the difficulty and to the feedback.
C7_NoRoundAborts == pc # "aborted"

\* C8: the history is append-only and in step with the difficulty: between
\* rounds its length is the number of completed rounds and the difficulty of its
\* last record is current_difficulty; the record a round appends holds the
\* round's error_rate and focus_score and the difficulty the round computed; no
\* step changes or removes an earlier record, and a round appends exactly one.
C8_HistoryInStep ==
    /\ [](pc = "idle" /\ initialized =>
            /\ Len(history) = completed
            /\ history # << >> => Last(history).diff = current_difficulty)
    /\ [](pc = "display" =>
            /\ Last(history) = [error |-> error_rate, focus |-> focus_score,
                                diff |-> adapt(error_rate, wpm, focus_score).value]
            /\ Len(history) = completed + 1)
    /\ [][/\ IsPrefix(history, history')
          /\ Len(history') <= Len(history) + 1]_vars

\* C8 witness: two rounds are complete, the history holds their two records
\* with different difficulties, and the second is the current difficulty.
C8_Witness ==
    /\ pc = "idle"
    /\ completed = 2
    /\ Len(history) = 2
    /\ history[1].diff # history[2].diff
    /\ history[2].diff = current_difficulty

\* C9: the model is trained and written at most once under any interleaving of
\* concurrent first calls of load_model, and no caller reads a partially written
\* artifact.
C9_TrainAtMostOnce ==
    /\ trained <= 1
    /\ written <= 1
    /\ \A p \in DOMAIN loaded : loaded[p] # "partial"

\* C10: the text the transcription is compared with is the passage of the
\* current level, whichever cues are on.
C10_ScoredAgainstPassage ==
    (pc = "observe" /\ audio_input) => listen_target = passages[level]

====
